---- MODULE Spec2Model ----
(***************************************************************************)
(* A model of beam_nuggets/io/relational_db/sqlalchemy_db.py: the          *)
(* SqlAlchemyDB connection manager (session, table cache), the schema      *)
(* resolver (load_table / create_table), the inference of columns from a   *)
(* sample record, the three insert builders and the _Table handle.         *)
(*                                                                         *)
(* The database engine and the SQLAlchemy Session are the environment.     *)
(* The target database itself is taken to exist, so the create_database    *)
(* branch of start_session (lines 92-95) does nothing.                     *)
(***************************************************************************)
EXTENDS Integers, Sequences, FiniteSets, Bags, TLC

\* ------------------------------------------------------------------ bounds
MaxRows == 2        \* rows the database may hold, all tables together

\* ------------------------------------------------------- the input domains
TableNames == {"students"}
DriverNames == {"postgresql+psycopg2", "mysql+pymysql", "sqlite"}
\* dict iteration order of a record (record.iteritems())
KeyOrder == <<"id", "id_", "id__", "name">>

\* Python values: a kind (the runtime type) and a payload.
PyInt(n) == [k |-> "int", v |-> n]
PyFloat(n) == [k |-> "float", v |-> n]
PyStr(n) == [k |-> "str", v |-> n]
PyBool(n) == [k |-> "bool", v |-> n]
PyDatetime(n) == [k |-> "datetime", v |-> n]
PyNone == [k |-> "NoneType", v |-> 0]

\* The rows a caller may write: mappings column name -> scalar.  With id
\* as primary key the first three share or differ in the key; the last two
\* lack a column of the first three.
Records ==
    {[id |-> PyInt(1), name |-> PyStr(1)],
     [id |-> PyInt(1), name |-> PyStr(2)],
     [id |-> PyInt(2), name |-> PyStr(1)],
     [name |-> PyStr(1)],
     [id |-> PyInt(1)]}

\* -------------------------------------------------------- type inference
\* x + 1 succeeds and x has no __len__
_is_number(x) == x.k \in {"bool", "int", "float"}

\* 'postgresql' in drivername, 'mysql' in drivername: substring tests
Contains(s, sub) ==
    \E i \in 1..(Len(s) - Len(sub) + 1) : SubSeq(s, i, i + Len(sub) - 1) = sub

_does_support_varchar(drivername) ==
    Contains(drivername, "postgresql") \/ Contains(drivername, "sqlite")

\* PYTHON_TO_DB_TYPE, in order, then the String fallback
infer_db_type(val, drivername) ==
    IF val.k = "bool" THEN "Boolean"
    ELSE IF _is_number(val) THEN "Float"
    ELSE IF val.k = "datetime" THEN "DateTime"
    ELSE IF val.k \in {"datetime", "date"} THEN "Date"
    ELSE IF _does_support_varchar(drivername) THEN "String" ELSE "String(100)"

Column(name, type, primary_key) ==
    [name |-> name, type |-> type, primary_key |-> primary_key]

SeqToSet(s) == {s[i] : i \in 1..Len(s)}

\* mutant: an if in place of the while
pri_col_name_once(pri_col_name, record) ==
    IF pri_col_name \in DOMAIN record THEN pri_col_name \o "_"
    ELSE pri_col_name

\* the while loop of lines 263-265: append '_' while the name is a key
RECURSIVE pri_col_name_loop(_, _)
pri_col_name_loop(pri_col_name, record) ==
    IF pri_col_name \in DOMAIN record
    THEN pri_col_name_loop(pri_col_name \o "_", record)
    ELSE pri_col_name

\* [raised, columns]: a KeyError when a primary-key name is no key of record
_columns_from_sample_record(record, primary_key_column_names, drivername) ==
    LET InRecord(col) == col \in DOMAIN record
        NotPk(col) == col \notin SeqToSet(primary_key_column_names)
        items == SelectSeq(KeyOrder, InRecord)
    IN  IF Len(primary_key_column_names) > 0
        THEN IF \E i \in 1..Len(primary_key_column_names) :
                    primary_key_column_names[i] \notin DOMAIN record
             THEN [raised |-> "KeyError", columns |-> <<>>]
             ELSE [raised |-> "none",
                   columns |->
                     [i \in 1..Len(primary_key_column_names) |->
                        Column(primary_key_column_names[i],
                               infer_db_type(record[primary_key_column_names[i]],
                                             drivername),
                               TRUE)]
                     \o
                     [i \in 1..Len(SelectSeq(items, NotPk)) |->
                        Column(SelectSeq(items, NotPk)[i],
                               infer_db_type(record[SelectSeq(items, NotPk)[i]],
                                             drivername),
                               FALSE)]]
        ELSE [raised |-> "none",
              columns |->
                <<Column(pri_col_name_loop("id", record), "Integer", TRUE)>>
                \o
                [i \in 1..Len(items) |->
                   Column(items[i], infer_db_type(record[items[i]], drivername),
                          FALSE)]]

get_column_names_from_table(table) == [i \in 1..Len(table) |-> table[i].name]

\* ------------------------------------------------------------- descriptors
\* define_table_f: None, or a caller's function declaring id INTEGER PRIMARY
\* KEY, name VARCHAR (the first two columns of the students table of
\* test_read_transform.py)
DefineTableFs == {"None", "define_students"}
define_students ==
    <<Column("id", "Integer", TRUE), Column("name", "String", FALSE)>>

\* create_insert_f: None, or a caller's builder; one builds INSERT .. ON
\* CONFLICT DO NOTHING, the other raises while building the statement
CreateInsertFs == {"None", "insert_or_ignore", "raising_builder"}

PrimaryKeyChoices == {<<>>, <<"id">>}

\* primary_key_columns is read only when define_table_f is None
TableConfiguration ==
    {c \in [name : TableNames,
            define_table_f : DefineTableFs,
            create_table_if_missing : BOOLEAN,
            primary_key_column_names : PrimaryKeyChoices,
            create_insert_f : CreateInsertFs] :
        c.define_table_f # "None" => c.primary_key_column_names = <<>>}

\* what the environment may do to one write: nothing, or fail the commit
\* (an execution fails on its own: a duplicate key, an unknown column)
Faults == {"none", "commit"}

\* ---------------------------------------------------------------- state
VARIABLES
    drivername,      \* self._source.url.drivername
    _session,        \* self._session: "None", or the state of the Session
    _name_to_table,  \* the tables metadata cache: name -> _Table
    db,              \* the database: name -> [columns, rows]
    last,            \* the call the caller is returning from: what it
                     \* returned or raised ("none": between two calls)
    written,         \* history: per table, how it was created and the rows
                     \* write_record committed to it
    stale,           \* history: the cached names resolved before the last
                     \* close_session
    sample_record,   \* the arguments and the result of one call of
    sample_pk,       \* _columns_from_sample_record (SpecInfer)
    inferred

mainvars == <<drivername, _session, _name_to_table, db, last, written, stale>>
infervars == <<sample_record, sample_pk, inferred>>
vars == <<mainvars, infervars>>

None == <<>>

\* ---------------------------------------------------- SQLAlchemy Session
\* A Session is "active", or "closed" when close() was the last call on it.
\* close() releases the transaction and the connection; the object stays
\* usable and begins a new transaction on its next query or execute.
SessionQuery(s) == "active"
SessionExecute(s) == "active"
SessionCommit(s) == "active"
SessionRollback(s) == "active"
SessionClose(s) == "closed"

\* ------------------------------------------------------- database engine
SqlNull == [k |-> "NULL", v |-> 0]

\* bind a Python value to a column of the given type
DbBind(type, val) ==
    CASE type = "Float" -> [k |-> "float", v |-> val.v]
      [] type = "Integer" -> [k |-> "int", v |-> val.v]
      [] type = "Boolean" -> [k |-> "bool", v |-> val.v]
      [] type \in {"DateTime", "Date"} -> [k |-> "datetime", v |-> val.v]
      [] OTHER -> [k |-> "str", v |-> val.v]

\* result processing: the Python value of a fetched column
DbFetch(dbval) == IF dbval = SqlNull THEN PyNone ELSE dbval

ColumnNames(columns) == {columns[i].name : i \in 1..Len(columns)}
PrimaryKey(columns) ==
    {columns[i].name : i \in {j \in 1..Len(columns) : columns[j].primary_key}}
ColumnType(columns, c) ==
    columns[CHOOSE i \in 1..Len(columns) : columns[i].name = c].type

\* the row an INSERT of `values` makes: bound values, NULL for a column not
\* supplied, the next integer for a sole INTEGER primary key not supplied
Max(S) == CHOOSE x \in S : \A y \in S : y <= x
NewRow(columns, rows, values) ==
    LET pk == PrimaryKey(columns)
        autoincrement(c) ==
            pk = {c} /\ ColumnType(columns, c) = "Integer"
        next(c) == IF rows = {} THEN 1 ELSE Max({r[c].v : r \in rows}) + 1
    IN  [c \in ColumnNames(columns) |->
            IF c \in DOMAIN values THEN DbBind(ColumnType(columns, c), values[c])
            ELSE IF autoincrement(c) THEN [k |-> "int", v |-> next(c)]
            ELSE SqlNull]

SamePk(columns, r1, r2) == \A c \in PrimaryKey(columns) : r1[c] = r2[c]

\* session.execute(insert_stmt) against a table: [ok, rows]
DbExecute(stmt, tbl) ==
    LET columns == tbl.columns
        row == NewRow(columns, tbl.rows, stmt.values)
        hit == {e \in tbl.rows : SamePk(columns, e, row)}
        updated(e) ==
            [c \in DOMAIN e |->
                IF c \in DOMAIN stmt.set_
                THEN DbBind(ColumnType(columns, c), stmt.set_[c]) ELSE e[c]]
    IN  IF ~(DOMAIN stmt.values \subseteq ColumnNames(columns))
        THEN [ok |-> FALSE, rows |-> tbl.rows]     \* unconsumed column names
        ELSE IF \E c \in PrimaryKey(columns) : row[c] = SqlNull
        THEN [ok |-> FALSE, rows |-> tbl.rows]     \* NOT NULL constraint
        ELSE IF hit = {}
        THEN [ok |-> TRUE, rows |-> tbl.rows \cup {row}]
        ELSE CASE stmt.on_conflict = "do_update" ->
                    [ok |-> TRUE,
                     rows |-> (tbl.rows \ hit) \cup {updated(e) : e \in hit}]
               [] stmt.on_conflict = "do_nothing" ->
                    [ok |-> TRUE, rows |-> tbl.rows]
               [] OTHER ->
                    [ok |-> FALSE, rows |-> tbl.rows]  \* integrity error

\* mutant: the plain insert built as an upsert
create_insert_replacing(table, record) ==
    [dialect |-> "generic", values |-> record, on_conflict |-> "do_update",
     index_elements |-> {}, set_ |-> record]

\* mutant: the Postgres upsert built as ON CONFLICT DO NOTHING
create_upsert_postgres_do_nothing(table, record) ==
    [dialect |-> "postgresql", values |-> record, on_conflict |-> "do_nothing",
     index_elements |-> {}, set_ |-> <<>>]

\* mutant: the dialect decides, the descriptor's builder is not looked at
_get_create_insert_f_dialect_only(table_config, driver) ==
    IF Contains(driver, "postgresql") THEN "create_upsert_postgres"
    ELSE IF Contains(driver, "mysql") THEN "create_upsert_mysql"
    ELSE "create_insert"

\* ------------------------------------------------------- insert builders
create_insert(table, record) ==
    [dialect |-> "generic", values |-> record, on_conflict |-> "none",
     index_elements |-> {}, set_ |-> <<>>]

create_upsert_postgres(table, record) ==
    [dialect |-> "postgresql", values |-> record, on_conflict |-> "do_update",
     index_elements |-> PrimaryKey(table), set_ |-> record]

create_upsert_mysql(table, record) ==
    [dialect |-> "mysql", values |-> record, on_conflict |-> "do_update",
     index_elements |-> {}, set_ |-> record]

\* a caller's builder: INSERT .. ON CONFLICT DO NOTHING
insert_or_ignore(table, record) ==
    [dialect |-> "custom", values |-> record, on_conflict |-> "do_nothing",
     index_elements |-> {}, set_ |-> <<>>]

\* the builder _get_create_insert_f returns, by name
_get_create_insert_f(table_config, driver) ==
    IF table_config.create_insert_f # "None"
    THEN table_config.create_insert_f
    ELSE IF Contains(driver, "postgresql") THEN "create_upsert_postgres"
    ELSE IF Contains(driver, "mysql") THEN "create_upsert_mysql"
    ELSE "create_insert"

\* calling the builder: [raised, stmt]
CallCreateInsertF(create_insert_f, table, record) ==
    CASE create_insert_f = "create_insert" ->
            [raised |-> "none", stmt |-> create_insert(table, record)]
      [] create_insert_f = "create_upsert_postgres" ->
            [raised |-> "none", stmt |-> create_upsert_postgres(table, record)]
      [] create_insert_f = "create_upsert_mysql" ->
            [raised |-> "none", stmt |-> create_upsert_mysql(table, record)]
      [] create_insert_f = "insert_or_ignore" ->
            [raised |-> "none", stmt |-> insert_or_ignore(table, record)]
      [] OTHER ->
            [raised |-> "BuilderError", stmt |-> create_insert(table, record)]

\* ------------------------------------------------------------- _Table
\* _Table.__init__
_Table(table_class, name) ==
    [name |-> name,
     _sqlalchemy_table |-> table_class,
     _column_names |-> get_column_names_from_table(table_class)]

\* mutant: only the first column is projected
_from_db_record_first_column(table, db_record) ==
    [col \in {table._column_names[1]} |-> DbFetch(db_record[col])]

_from_db_record(table, db_record) ==
    [col \in SeqToSet(table._column_names) |-> DbFetch(db_record[col])]

\* _Table.records: every row of the table, as a Row mapping
records(table, d) == {_from_db_record(table, r) : r \in d[table.name].rows}

\* mutant: the except clause without session.close()
ExceptHandlerWithoutClose(session) == SessionRollback(session)

\* the except clause of _Table.write_record: rollback, close, re-raise
ExceptHandler(session) == SessionClose(SessionRollback(session))

\* _Table.write_record: [raised, step, session, db]
_Table_write_record(table, session, create_insert_f, record_dict, d, fault) ==
    LET built == CallCreateInsertF(create_insert_f, table._sqlalchemy_table,
                                   record_dict)
        exec == DbExecute(built.stmt, d[table.name])
        step == IF built.raised # "none" THEN "build"
                ELSE IF session = "None" \/ ~exec.ok
                THEN "execute"
                ELSE IF fault = "commit" THEN "commit"
                ELSE "none"
    IN  IF step = "none"
        THEN [raised |-> "none", step |-> "none",
              session |-> SessionCommit(SessionExecute(session)),
              db |-> [d EXCEPT ![table.name].rows = exec.rows]]
        ELSE IF session = "None"
        THEN \* None.execute or None.rollback raises inside the method
             [raised |-> "AttributeError", step |-> step,
              session |-> session, db |-> d]
        ELSE [raised |-> IF step = "build" THEN built.raised ELSE "DatabaseError",
              step |-> step,
              session |-> ExceptHandler(session), db |-> d]

\* ------------------------------------------------------ schema resolver
\* load_table: the table class reflected from the database, or None
load_table(d, name) == IF name \in DOMAIN d THEN d[name].columns ELSE None

\* mutant: create_table_if_missing is not looked at
create_table_ignoring_flag(d, name, table_config, record, driver) ==
    LET defined ==
            IF table_config.define_table_f # "None"
            THEN [raised |-> "none", columns |-> define_students]
            ELSE _columns_from_sample_record(
                     record, table_config.primary_key_column_names, driver)
    IN  IF name \in DOMAIN d
        THEN [raised |-> "none", table_class |-> d[name].columns, db |-> d,
              how |-> "loaded"]
        ELSE IF defined.raised # "none"
        THEN [raised |-> defined.raised, table_class |-> <<>>, db |-> d,
              how |-> "none"]
        ELSE [raised |-> "none", table_class |-> defined.columns,
              db |-> (name :> [columns |-> defined.columns, rows |-> {}]) @@ d,
              how |-> "created"]

\* create_table: [raised, table_class, db, how]
create_table(d, name, table_config, record, driver) ==
    LET loaded == load_table(d, name)
        defined ==
            IF table_config.define_table_f # "None"
            THEN [raised |-> "none", columns |-> define_students]
            ELSE _columns_from_sample_record(
                     record, table_config.primary_key_column_names, driver)
    IN  IF loaded # None
        THEN [raised |-> "none", table_class |-> loaded, db |-> d,
              how |-> "loaded"]
        ELSE IF ~table_config.create_table_if_missing
        THEN [raised |-> "none", table_class |-> None, db |-> d, how |-> "none"]
        ELSE IF defined.raised # "none"
        THEN [raised |-> defined.raised, table_class |-> None, db |-> d,
              how |-> "none"]
        ELSE [raised |-> "none", table_class |-> defined.columns,
              db |-> (name :> [columns |-> defined.columns, rows |-> {}]) @@ d,
              how |-> "created"]

\* _get_table with get_table_f = create_table or load_table (for_write or
\* not): [raised, step, table, db, how]
_get_table(d, session, name, for_write, table_config, record, driver) ==
    LET got == IF for_write
               THEN create_table(d, name, table_config, record, driver)
               ELSE [raised |-> "none", table_class |-> load_table(d, name),
                     db |-> d,
                     how |-> IF name \in DOMAIN d THEN "loaded" ELSE "none"]
    IN  IF session = "None"
        THEN \* session.bind on None
             [raised |-> "AttributeError", step |-> "resolution",
              table |-> None, db |-> d, how |-> "none"]
        ELSE IF got.raised # "none"
        THEN [raised |-> got.raised, step |-> "creation", table |-> None,
              db |-> d, how |-> "none"]
        ELSE IF got.table_class # None
        THEN [raised |-> "none", step |-> "none",
              table |-> _Table(got.table_class, name),
              db |-> got.db, how |-> got.how]
        ELSE [raised |-> "SqlAlchemyDbException", step |-> "resolution",
              table |-> None, db |-> d, how |-> "none"]

\* mutant: the cache is written and never read
_open_table_without_cache(cache, d, session, name, for_write, table_config, record, driver) ==
    LET got == _get_table(d, session, name, for_write, table_config, record,
                          driver)
    IN  IF got.raised # "none"
        THEN [raised |-> got.raised, step |-> got.step, table |-> <<>>,
              cache |-> cache, db |-> d, how |-> "none"]
        ELSE [raised |-> "none", step |-> "none", table |-> got.table,
              cache |-> (name :> got.table) @@ cache, db |-> got.db,
              how |-> got.how]

\* _open_table: the cached _Table, or the one _get_table makes (cached
\* only when _get_table returns): [raised, step, table, cache, db, how]
_open_table(cache, d, session, name, for_write, table_config, record, driver) ==
    LET got == _get_table(d, session, name, for_write, table_config, record,
                          driver)
    IN  IF name \in DOMAIN cache
        THEN [raised |-> "none", step |-> "none", table |-> cache[name],
              cache |-> cache, db |-> d, how |-> "cached"]
        ELSE IF got.raised # "none"
        THEN [raised |-> got.raised, step |-> got.step, table |-> None,
              cache |-> cache, db |-> d, how |-> "none"]
        ELSE [raised |-> "none", step |-> "none", table |-> got.table,
              cache |-> (name :> got.table) @@ cache, db |-> got.db,
              how |-> got.how]

\* ------------------------------------------------------- SqlAlchemyDB
EmptyMap == [x \in {} |-> x]

RECURSIVE RowCountOver(_, _)
RowCountOver(d, names) ==
    IF names = {} THEN 0
    ELSE LET t == CHOOSE t \in names : TRUE
         IN  Cardinality(d[t].rows) + RowCountOver(d, names \ {t})
RowCount(d) == RowCountOver(d, DOMAIN d)

NoConfig ==
    [name |-> "", define_table_f |-> "None", create_table_if_missing |-> FALSE,
     primary_key_column_names |-> <<>>, create_insert_f |-> "None"]

\* what a call hands back to its caller, with the arguments it was given
Result(op, name, raised, step, how) ==
    [op |-> op, name |-> name, raised |-> raised, step |-> step, how |-> how,
     table_config |-> NoConfig, record_dict |-> EmptyMap, fault |-> "none",
     create_insert_f |-> "none", result |-> {}]

NoCall == Result("none", "", "none", "none", "none")
NotInferred == [raised |-> "pending", columns |-> <<>>]

\* __init__: no session, an empty cache; the database holds no table yet
Init ==
    /\ drivername \in DriverNames
    /\ _session = "None"
    /\ _name_to_table = EmptyMap
    /\ db = EmptyMap
    /\ written = EmptyMap
    /\ stale = {}
    /\ last = NoCall
    /\ sample_record = EmptyMap
    /\ sample_pk = <<>>
    /\ inferred = NotInferred

start_session ==
    /\ last.op = "none"
    /\ _session' = "active"
    /\ last' = Result("start_session", "", "none", "none", "none")
    /\ UNCHANGED <<drivername, _name_to_table, db, written, stale, infervars>>

\* mutant: close_session empties the cache
close_session_clearing_cache ==
    /\ last.op = "none"
    /\ IF _session = "None"
       THEN /\ last' = Result("close_session", "", "AttributeError", "close",
                              "none")
            /\ UNCHANGED <<_session, stale, _name_to_table>>
       ELSE /\ _session' = "None"
            /\ stale' = {}
            /\ _name_to_table' = EmptyMap
            /\ last' = Result("close_session", "", "none", "none", "none")
    /\ UNCHANGED <<drivername, db, written, infervars>>

\* the cache is the manager's: close_session leaves it as it is
close_session ==
    /\ last.op = "none"
    /\ IF _session = "None"
       THEN /\ last' = Result("close_session", "", "AttributeError", "close",
                              "none")
            /\ UNCHANGED <<_session, stale>>
       ELSE /\ _session' = "None"
            /\ stale' = DOMAIN _name_to_table
            /\ last' = Result("close_session", "", "none", "none", "none")
    /\ UNCHANGED <<drivername, _name_to_table, db, written, infervars>>

\* read(table_name), iterated to its end by the caller
read(table_name) ==
    /\ \E opened \in {_open_table(_name_to_table, db, _session, table_name,
                                   FALSE, NoConfig, EmptyMap, drivername)} :
         IF opened.raised # "none"
         THEN /\ last' = Result("read", table_name, opened.raised,
                                opened.step, "none")
              /\ UNCHANGED <<_session, _name_to_table>>
         ELSE IF _session = "None"
         THEN \* a cached table, and session.query on None
              /\ last' = Result("read", table_name, "AttributeError",
                                "query", opened.how)
              /\ UNCHANGED <<_session, _name_to_table>>
         ELSE /\ _name_to_table' = opened.cache
              /\ _session' = SessionQuery(_session)
              /\ last' = [Result("read", table_name, "none", "none",
                                 opened.how)
                          EXCEPT !.result = records(opened.table, db)]
    /\ UNCHANGED <<drivername, db, written, stale, infervars>>

\* history of a write: a created table's origin, the rows committed to it
\* while every committed write added a row (exact)
Track(w, name, table_config, record, before, opened, after, raised) ==
    LET base ==
            IF name \in DOMAIN before THEN w
            ELSE IF table_config.define_table_f # "None"
            THEN (name :> [inferred |-> FALSE, pk |-> <<>>, sample |-> {},
                           rows |-> EmptyBag, exact |-> TRUE]) @@ w
            ELSE (name :> [inferred |-> TRUE,
                           pk |-> table_config.primary_key_column_names,
                           sample |-> DOMAIN record,
                           rows |-> EmptyBag, exact |-> TRUE]) @@ w
    IN  IF raised # "none" \/ ~base[name].exact THEN base
        ELSE IF Cardinality(after[name].rows) > Cardinality(opened[name].rows)
        THEN [base EXCEPT ![name].rows = @ (+) SetToBag({record})]
        ELSE [base EXCEPT ![name].rows = EmptyBag, ![name].exact = FALSE]

\* write_record(table_config, record_dict); the environment may fail the
\* commit of a write that reaches it.  opened and w are the values the two
\* calls of lines 114 and 115 return, each call made once.
write_record(table_config, record_dict) ==
    LET name == table_config.name
        create_insert_f == _get_create_insert_f(table_config, drivername)
        call == [Result("write_record", name, "none", "none", "none")
                 EXCEPT !.table_config = table_config,
                        !.record_dict = record_dict]
    IN  /\ \E opened \in {_open_table(_name_to_table, db, _session, name,
                                       TRUE, table_config, record_dict,
                                       drivername)} :
             IF opened.raised # "none"
             THEN /\ last' = [call EXCEPT !.raised = opened.raised,
                                          !.step = opened.step]
                  /\ UNCHANGED <<drivername, _session, _name_to_table, db,
                                 written>>
             ELSE \E fault \in Faults :
                  \E w \in {_Table_write_record(opened.table, _session,
                                                create_insert_f, record_dict,
                                                opened.db, fault)} :
                      /\ fault = "commit" => w.step = "commit"
                      /\ RowCount(w.db) <= MaxRows
                      /\ _name_to_table' = opened.cache
                      /\ db' = w.db
                      /\ _session' = w.session
                      /\ last' = [call EXCEPT
                                     !.raised = w.raised,
                                     !.step = w.step,
                                     !.how = opened.how,
                                     !.fault = fault,
                                     !.create_insert_f = create_insert_f]
                      /\ written' = Track(written, name, table_config,
                                          record_dict, db, opened.db, w.db,
                                          w.raised)
                      /\ UNCHANGED drivername
        /\ UNCHANGED <<stale, infervars>>

\* the caller makes one call at a time
Read ==
    /\ last.op = "none"
    /\ \E table_name \in TableNames : read(table_name)

Write ==
    /\ last.op = "none"
    /\ \E table_config \in TableConfiguration, record_dict \in Records :
           write_record(table_config, record_dict)

\* the caller takes the result or the exception of the call
Return ==
    /\ last.op # "none"
    /\ last' = NoCall
    /\ UNCHANGED <<drivername, _session, _name_to_table, db, written, stale,
                   infervars>>

Next == start_session \/ close_session \/ Read \/ Write \/ Return

Spec == Init /\ [][Next]_vars

\* ------------------------------------- _columns_from_sample_record alone
InferKeys == {"id", "id_", "id__", "name"}
InferValues == {PyBool(1), PyInt(1), PyDatetime(1), PyStr(1)}
SampleRecords ==
    UNION {[ks -> InferValues] : ks \in SUBSET InferKeys}
SamplePks == {<<>>, <<"id">>, <<"id", "name">>}

InitInfer ==
    /\ drivername \in DriverNames
    /\ _session = "None"
    /\ _name_to_table = EmptyMap
    /\ db = EmptyMap
    /\ written = EmptyMap
    /\ stale = {}
    /\ last = NoCall
    /\ sample_record \in SampleRecords
    /\ sample_pk \in SamplePks
    /\ inferred = NotInferred

infer ==
    /\ inferred = NotInferred
    /\ inferred' = _columns_from_sample_record(sample_record, sample_pk,
                                               drivername)
    /\ UNCHANGED <<mainvars, sample_record, sample_pk>>

NextInfer == infer

SpecInfer == InitInfer /\ [][NextInfer]_vars

\* ================================================================ claims
IsWrite(r) == r.op = "write_record"
IsAccess(r) == r.op \in {"read", "write_record"}
RowsOf(d, t) == IF t \in DOMAIN d THEN d[t].rows ELSE {}

\* ---------------------------------------------------------------- C1
\* C1 as stated: a write_record that fails at any step, on a manager holding
\* a session, ends with the session closed.
C1_AnyFailureCloses ==
    [][(_session # "None" /\ IsWrite(last') /\ last'.raised # "none")
          => _session' = "closed"]_vars

\* C1, amended: a write_record that fails while building the statement,
\* executing it or committing ends with the transaction rolled back (no row
\* of it is kept) and the session closed; one that fails in table
\* resolution or table creation leaves the session as it was.
C1_FailureInsideTryCloses ==
    [][(_session # "None" /\ IsWrite(last') /\ last'.raised # "none")
          => /\ last'.step \in {"build", "execute", "commit", "resolution",
                                "creation"}
             /\ last'.step \in {"build", "execute", "commit"}
                   => /\ _session' = "closed"
                      /\ \A t \in DOMAIN db' : db'[t].rows = RowsOf(db, t)
             /\ last'.step \in {"resolution", "creation"}
                   => /\ _session' = _session
                      /\ db' = db]_vars

C1_Witness ==
    /\ IsWrite(last) /\ last.step = "commit" /\ last.raised = "DatabaseError"
    /\ _session = "closed"

\* ---------------------------------------------------------------- C2
\* C2: an absent table appears only through a write_record whose descriptor
\* sets create_table_if_missing; a read of an absent table and a write to
\* one without the flag fail (with SqlAlchemyDbException when the manager
\* holds a session) and change neither the database nor the cache; a write
\* with the flag to an absent table creates it unless inference fails.
C2_AbsentTable ==
    [][/\ \A t \in TableNames :
            (t \notin DOMAIN db /\ t \in DOMAIN db')
               => /\ IsWrite(last') /\ last'.name = t
                  /\ last'.table_config.create_table_if_missing
       /\ (/\ IsAccess(last') /\ last'.name \notin DOMAIN db
           /\ (last'.op = "read"
                  \/ ~last'.table_config.create_table_if_missing))
             => /\ last'.raised # "none"
                /\ _session # "None"
                      => /\ last'.raised = "SqlAlchemyDbException"
                         /\ last'.step = "resolution"
                /\ db' = db
                /\ _name_to_table' = _name_to_table
       /\ (/\ IsWrite(last') /\ last'.name \notin DOMAIN db
           /\ last'.table_config.create_table_if_missing
           /\ _session # "None" /\ last'.raised # "KeyError")
             => /\ last'.name \in DOMAIN db'
                /\ last'.how = "created"]_vars

C2_Witness ==
    /\ last.op = "read" /\ last.raised = "SqlAlchemyDbException"
    /\ last.name \notin DOMAIN db /\ last.name \notin DOMAIN _name_to_table
    /\ _session = "active"

\* ---------------------------------------------------------------- C3
\* Python's ==: numbers compare by value (1 == 1.0), the rest by identity
PyEq(a, b) ==
    IF a.k \in {"bool", "int", "float"} /\ b.k \in {"bool", "int", "float"}
    THEN a.v = b.v ELSE a = b
PyRowEq(r, x) == DOMAIN r = DOMAIN x /\ \A c \in DOMAIN r : PyEq(r[c], x[c])
\* the rows read are the rows written: as many, and each as often
RoundTrip(W, R) ==
    /\ BagCardinality(W) = Cardinality(R)
    /\ \A r \in BagToSet(W) :
          CopiesIn(r, W) = Cardinality({x \in R : PyRowEq(r, x)})
ReadOf(t) == last.op = "read" /\ last.raised = "none" /\ last.name = t

UpsertUsed(r) ==
    r.create_insert_f \in {"create_upsert_postgres", "create_upsert_mysql"}
Bound(columns, record, c) == DbBind(ColumnType(columns, c), record[c])
\* the rows of table t whose primary key is the one record supplies
Hits(d, t, record) ==
    IF t \notin DOMAIN d THEN {}
    ELSE IF ~(PrimaryKey(d[t].columns) \subseteq DOMAIN record) THEN {}
    ELSE {e \in d[t].rows :
            \A c \in PrimaryKey(d[t].columns) :
                e[c] = Bound(d[t].columns, record, c)}
UniqueKeys(d) ==
    \A t \in DOMAIN d : \A r1, r2 \in d[t].rows :
        SamePk(d[t].columns, r1, r2) => r1 = r2

\* C4: a write_record that uses the Postgres or the MySQL upsert, for a row
\* whose primary key an existing row has, succeeds (when nothing else fails)
\* and replaces in that row every column the new row supplies, leaving its
\* other columns and all other rows as they were; no table ever holds two
\* rows with one primary key.
C4_UpsertReplaces ==
    [][/\ UniqueKeys(db')
       /\ (/\ IsWrite(last') /\ UpsertUsed(last') /\ _session # "None"
           /\ Hits(db, last'.name, last'.record_dict) # {}
           /\ DOMAIN last'.record_dict
                 \subseteq ColumnNames(db[last'.name].columns))
             => LET t == last'.name
                    rec == last'.record_dict
                    cols == db[t].columns
                    hit == Hits(db, t, rec)
                    replaced(e) ==
                        [c \in DOMAIN e |->
                            IF c \in DOMAIN rec THEN Bound(cols, rec, c)
                            ELSE e[c]]
                IN  /\ last'.fault = "none" => last'.raised = "none"
                    /\ last'.raised # "none" => db' = db
                    /\ last'.raised = "none"
                         => /\ db'[t].rows =
                                 (db[t].rows \ hit)
                                     \cup {replaced(e) : e \in hit}
                            /\ Cardinality(Hits(db', t, rec)) = 1
                            /\ Cardinality(db'[t].rows)
                                   = Cardinality(db[t].rows)]_vars

C4_Witness ==
    /\ IsWrite(last) /\ UpsertUsed(last) /\ last.raised = "none"
    /\ last.how = "cached"
    /\ last.record_dict = [id |-> PyInt(1), name |-> PyStr(2)]
    /\ ~written[last.name].exact
    /\ written[last.name].pk = <<"id">>
    /\ Cardinality(db[last.name].rows) = 2

\* ---------------------------------------------------------------- C5
\* C5: a write_record that uses the plain insert, for a row whose primary
\* key an existing row has, fails and leaves the database as it was.
C5_PlainInsertCollision ==
    [][(/\ IsWrite(last') /\ last'.create_insert_f = "create_insert"
        /\ Hits(db, last'.name, last'.record_dict) # {})
          => /\ last'.raised # "none"
             /\ db' = db]_vars

C5_Witness ==
    /\ IsWrite(last) /\ last.create_insert_f = "create_insert"
    /\ last.raised = "DatabaseError" /\ last.step = "execute"
    /\ last.fault = "none"
    /\ Hits(db, last.name, last.record_dict) # {}
    /\ Cardinality(db[last.name].rows) = 2

\* ---------------------------------------------------------------- C6
\* C6: a read or a write_record on a name the cache holds takes the handle
\* from the cache, whatever descriptor or row it is given: the cache and
\* the table's columns stay as they are, no table appears, and the call
\* raises neither a resolution nor an inference error.
C6_CachedHandleReused ==
    [][(IsAccess(last') /\ last'.name \in DOMAIN _name_to_table)
          => /\ last'.how = "cached"
             /\ _name_to_table' = _name_to_table
             /\ DOMAIN db' = DOMAIN db
             /\ db'[last'.name].columns = db[last'.name].columns
             /\ last'.raised \notin {"SqlAlchemyDbException", "KeyError"}]_vars

C6_Witness ==
    /\ IsWrite(last) /\ last.how = "cached" /\ last.raised = "none"
    /\ last.table_config.create_table_if_missing
    /\ last.table_config.define_table_f = "define_students"
    /\ written[last.name].inferred
    /\ DOMAIN last.record_dict # written[last.name].sample

\* ---------------------------------------------------------------- C7
\* C7 as stated: a handle leaves the cache when, and only when, the session
\* is closed by close_session.
C7_InvalidatedOnClose ==
    [][\A t \in DOMAIN _name_to_table :
          (t \notin DOMAIN _name_to_table')
             <=> (last'.op = "close_session" /\ last'.raised = "none")]_vars

\* C7, amended: a handle never leaves the cache and is never replaced while
\* the manager lives; after close_session and a new start_session an access
\* to the name still takes the handle cached in the earlier session.
C7_HandleOutlivesSession ==
    [][/\ \A t \in DOMAIN _name_to_table :
             /\ t \in DOMAIN _name_to_table'
             /\ _name_to_table'[t] = _name_to_table[t]
       /\ (IsAccess(last') /\ last'.name \in stale)
             => last'.how = "cached"]_vars

C7_Witness ==
    /\ IsAccess(last) /\ last.name \in stale /\ last.how = "cached"
    /\ last.raised = "none" /\ _session = "active"

\* ---------------------------------------------------------------- C8
\* C8 as stated: while the session is closed, by close_session or by the
\* except clause of a failed write, no read and no write_record succeeds.
C8_ClosedSessionRefuses ==
    [][(_session \in {"None", "closed"} /\ IsAccess(last'))
          => last'.raised # "none"]_vars

\* ---------------------------------------------------------------- C9
RECURSIVE IdName(_)
IdName(n) == IF n = 0 THEN "id" ELSE IdName(n - 1) \o "_"

\* C9: with no primary-key names, the inferred columns are one INTEGER
\* primary key named by the shortest 'id', 'id_', 'id__', ... that is no key
\* of the sample (found within as many steps as the sample has keys) and
\* one ordinary column for each key of the sample.
C9_SyntheticKey ==
    (inferred.raised = "none" /\ sample_pk = <<>>)
        => LET cols == inferred.columns
               keys == DOMAIN sample_record
               pks == {i \in 1..Len(cols) : cols[i].primary_key}
           IN  /\ Cardinality(pks) = 1
               /\ \A i \in pks :
                     /\ cols[i].type = "Integer"
                     /\ \E n \in 0..Cardinality(keys) :
                           /\ cols[i].name = IdName(n)
                           /\ IdName(n) \notin keys
                           /\ \A m \in 0..(n - 1) : IdName(m) \in keys
               /\ Len(cols) = Cardinality(keys) + 1
               /\ \A key \in keys :
                     Cardinality({i \in 1..Len(cols) :
                                    cols[i].name = key
                                    /\ ~cols[i].primary_key}) = 1

C9_Witness ==
    /\ inferred.raised = "none" /\ sample_pk = <<>>
    /\ DOMAIN sample_record = InferKeys
    /\ inferred.columns[1].name = "id___"

\* ---------------------------------------------------------------- C10
\* C10: a write_record that gets as far as the insert uses the descriptor's
\* builder when the descriptor of this call has one, else the Postgres
\* upsert on a postgresql driver, the MySQL upsert on a mysql driver, the
\* plain insert on any other; also when the handle comes from the cache.
C10_BuilderChosen ==
    IsWrite(last)
        => LET asked == last.table_config.create_insert_f
               expected ==
                   IF asked # "None" THEN asked
                   ELSE IF drivername = "postgresql+psycopg2"
                   THEN "create_upsert_postgres"
                   ELSE IF drivername = "mysql+pymysql"
                   THEN "create_upsert_mysql"
                   ELSE "create_insert"
           IN  IF last.step \in {"resolution", "creation"}
               THEN last.create_insert_f = "none"
               ELSE last.create_insert_f = expected

C10_Witness ==
    /\ IsWrite(last) /\ last.how = "cached" /\ last.raised = "none"
    /\ drivername = "postgresql+psycopg2"
    /\ last.table_config.create_insert_f = "insert_or_ignore"
    /\ last.create_insert_f = "insert_or_ignore"
====
